---------------------------- MODULE Spec2Model ----------------------------
(***************************************************************************)
(* A model of agentools/register/tool.py: the tool registry kept in        *)
(* tool_template/tools.json, static registration (function_tool), module   *)
(* registration (register_function), the dispatcher (tool_calling) and the *)
(* brace-matching extractor (extract_json).  Three specifications share    *)
(* the variables: Spec (calls made one after the other), CSpec (two        *)
(* callers of static registration at the same time) and XSpec (the         *)
(* extractor on every short text).                                         *)
(*                                                                         *)
(* Texts are sequences of symbols.  A symbol is one character ("{", "}",   *)
(* ":", ",", a letter, a digit) or one quoted JSON string, written here    *)
(* without its quotes ("add" stands for the lexeme "add" with its quotes). *)
(***************************************************************************)
EXTENDS Integers, Sequences, FiniteSets, TLC

VARIABLES
    registered_functions, \* ToolManager._registered_functions: name -> function
    tools_file,           \* tool_template/tools.json: exists, text, content
    uuid_next,            \* the next value uuid.uuid4() hands out
    issued,               \* history: the tool_call_ids minted so far, in order
    last_reg,             \* the registration call that has just ended, as its
                          \* caller sees it, with the file before the call
    call,                 \* the tool_calling run that has just ended: its
                          \* task and its outcome
    wrappers,             \* the functions whose decorator returned a wrapper
    wcall,                \* the wrapper call that has just ended
    procs,                \* concurrent callers of ToolManager.register_function
                          \* (concurrent runs): where each one is
    xtext,                \* the text handed to extract_json (extractor runs)
    xresult               \* what extract_json gave for xtext

vars == <<registered_functions, tools_file, uuid_next, issued, last_reg, call,
          wrappers, wcall, procs, xtext, xresult>>

-----------------------------------------------------------------------------
(* Bounds *)

\* longest text handed to extract_json in the extractor runs
MaxLen == 6

\* how many tool_call_ids are minted in one run of the program
MaxIds == 3

-----------------------------------------------------------------------------
(* Values *)

\* Python's None
None == [kind |-> "None"]

\* a str value made of the symbols s
Str(s) == [kind |-> "str", val |-> s]

\* an exception of class c leaving a function
Raise(c) == [kind |-> "raise", exc |-> c]

-----------------------------------------------------------------------------
(* extract_json *)

\* text.find("{"): the first position of "{", 0 when there is none
\* (Python gives -1; positions here count from 1)
find_brace(text) ==
    IF \E i \in 1..Len(text) : text[i] = "{"
    THEN CHOOSE i \in 1..Len(text) :
            text[i] = "{" /\ \A k \in 1..(i - 1) : text[k] # "{"
    ELSE 0

\* a faulty scan that stops at the first "}" whatever the depth
RECURSIVE scan_first_close(_, _, _, _)
scan_first_close(text, start, i, stack) ==
    IF i > Len(text) THEN None
    ELSE IF text[i] = "}" THEN Str(SubSeq(text, start, i))
    ELSE scan_first_close(text, start, i + 1, stack)

\* the for loop of extract_json from position i on, with the stack so far
RECURSIVE scan(_, _, _, _)
scan(text, start, i, stack) ==
    IF i > Len(text) THEN None
    ELSE IF text[i] = "{" THEN scan(text, start, i + 1, Append(stack, "{"))
    ELSE IF text[i] = "}" THEN
        IF stack = <<>> THEN Raise("IndexError")     \* pop from empty list
        ELSE LET popped == SubSeq(stack, 1, Len(stack) - 1)
             IN  IF popped = <<>> THEN Str(SubSeq(text, start, i))
                 ELSE scan(text, start, i + 1, popped)
    ELSE scan(text, start, i + 1, stack)

\* a faulty extractor that gives the rest of the text when the braces
\* never close
extract_json_rest(text) ==
    LET start == find_brace(text)
        r == IF start = 0 THEN None ELSE scan(text, start, start, <<>>)
    IN  IF start # 0 /\ r = None THEN Str(SubSeq(text, start, Len(text))) ELSE r

extract_json(text) ==
    LET start == find_brace(text)
    IN  IF start = 0 THEN None
        ELSE scan(text, start, start, <<>>)

-----------------------------------------------------------------------------
(* Parsed values: what json.loads and ast.literal_eval build *)

JStr(x) == [t |-> "str", v |-> x]
JNum(n) == [t |-> "num", v |-> n]
JBool(b) == [t |-> "bool", v |-> b]
JNone == [t |-> "none", v |-> "None"]
\* a bytes object (Python literals only)
JBytes(x) == [t |-> "bytes", v |-> x]
\* a dict: a function from its keys to values
JObj(f) == [t |-> "obj", v |-> f]
\* a list: a sequence of values
JList(q) == [t |-> "list", v |-> q]

\* d[k] = v on a dict
Put(d, k, v) == [x \in (DOMAIN d) \cup {k} |-> IF x = k THEN v ELSE d[x]]

\* the empty dict
EmptyDict == [x \in {} |-> x]

\* the quoted strings that occur in the modelled texts
StringLits ==
    {"tool_name", "arguments", "module_path", "docstring", "is_runtime",
     "tool_call_id", "__runtime__", "",
     "add", "ping", "mul", "ghost", "json", "extract_json",
     "fail_import", "fail_attr", "fail_json", "fail_value",
     "m1", "broken", "nomod", "x", "y", "a", "text", "doc", "stale",
     "register_function", "zeta"}

\* the number literals that occur in the modelled texts
NumLits == {"2", "3"}

NumVal(sym) == IF sym = "2" THEN 2 ELSE 3

\* the bytes literals that occur in the modelled texts, prefix and quotes
\* included
BytesLits == {"b'x'"}

TrueWord == <<"T", "r", "u", "e">>

ParseFail == [ok |-> FALSE]
ParseOk(val, next) == [ok |-> TRUE, val |-> val, next |-> next]

\* One value of s from position i on.  py: Python literal syntax
\* (ast.literal_eval), where the bare words None and True and a bytes
\* literal are values; otherwise JSON.
\* Python syntax allows a comma before the closing bracket, JSON does not.
\* Dict keys are quoted strings in the modelled texts.
RECURSIVE parse_value(_, _, _)
RECURSIVE parse_members(_, _, _, _)
RECURSIVE parse_items(_, _, _, _)

parse_value(s, i, py) ==
    IF i > Len(s) THEN ParseFail
    ELSE IF s[i] \in StringLits THEN ParseOk(JStr(s[i]), i + 1)
    ELSE IF s[i] \in NumLits THEN ParseOk(JNum(NumVal(s[i])), i + 1)
    ELSE IF py /\ i + 3 <= Len(s) /\ SubSeq(s, i, i + 3) = <<"N", "o", "n", "e">>
        THEN ParseOk(JNone, i + 4)
    ELSE IF py /\ i + 3 <= Len(s) /\ SubSeq(s, i, i + 3) = TrueWord
        THEN ParseOk(JBool(TRUE), i + 4)
    ELSE IF py /\ s[i] \in BytesLits THEN ParseOk(JBytes(s[i]), i + 1)
    ELSE IF s[i] = "{" THEN
        IF i + 1 <= Len(s) /\ s[i + 1] = "}" THEN ParseOk(JObj(EmptyDict), i + 2)
        ELSE parse_members(s, i + 1, py, EmptyDict)
    ELSE IF s[i] = "[" THEN
        IF i + 1 <= Len(s) /\ s[i + 1] = "]" THEN ParseOk(JList(<<>>), i + 2)
        ELSE parse_items(s, i + 1, py, <<>>)
    ELSE ParseFail

\* key : value pairs up to the closing brace; a repeated key keeps the last
parse_members(s, i, py, acc) ==
    IF py /\ acc # EmptyDict /\ i <= Len(s) /\ s[i] = "}"     \* {"a": 1,}
        THEN ParseOk(JObj(acc), i + 1)
    ELSE IF i + 1 > Len(s) \/ s[i] \notin StringLits \/ s[i + 1] # ":" THEN ParseFail
    ELSE LET r == parse_value(s, i + 2, py)
         IN  IF ~r.ok THEN ParseFail
             ELSE IF r.next > Len(s) THEN ParseFail
             ELSE IF s[r.next] = "}"
                 THEN ParseOk(JObj(Put(acc, s[i], r.val)), r.next + 1)
             ELSE IF s[r.next] = ","
                 THEN parse_members(s, r.next + 1, py, Put(acc, s[i], r.val))
             ELSE ParseFail

\* values up to the closing bracket
parse_items(s, i, py, acc) ==
    LET r == parse_value(s, i, py)
    IN  IF py /\ acc # <<>> /\ i <= Len(s) /\ s[i] = "]"          \* [1,]
            THEN ParseOk(JList(acc), i + 1)
        ELSE IF ~r.ok THEN ParseFail
        ELSE IF r.next > Len(s) THEN ParseFail
        ELSE IF s[r.next] = "]"
            THEN ParseOk(JList(Append(acc, r.val)), r.next + 1)
        ELSE IF s[r.next] = ","
            THEN parse_items(s, r.next + 1, py, Append(acc, r.val))
        ELSE ParseFail

\* json.loads(s): the value, or json.JSONDecodeError
json_loads(s) ==
    LET r == parse_value(s, 1, FALSE)
    IN  IF r.ok /\ r.next = Len(s) + 1
        THEN [kind |-> "value", val |-> r.val]
        ELSE Raise("JSONDecodeError")

\* ast.literal_eval(s): the value, or SyntaxError (a ValueError for a
\* well-formed expression that is no literal: both are caught together)
literal_eval(s) ==
    LET r == parse_value(s, 1, TRUE)
    IN  IF r.ok /\ r.next = Len(s) + 1
        THEN [kind |-> "value", val |-> r.val]
        ELSE Raise("SyntaxError")

\* "None" in s: the four characters in a row
contains_None(s) ==
    \E i \in 1..(Len(s) - 3) : SubSeq(s, i, i + 3) = <<"N", "o", "n", "e">>

-----------------------------------------------------------------------------
(* The functions, modules and names of the process *)

\* The Python functions of the modelled program, by an identifier.  name is
\* __name__; params the declared parameters in order; ann their annotations
\* as str() prints them ("" for none); ret the return annotation; doc the
\* docstring; body what the function does when called.
Functions ==
    [ add_xy      |-> [name |-> "add", params |-> <<"x", "y">>,
                       ann |-> <<"<class 'int'>", "<class 'int'>">>,
                       ret |-> "<class 'int'>",
                       doc |-> "doc", body |-> "sum"],
      add_a       |-> [name |-> "add", params |-> <<"a">>,
                       ann |-> <<"">>, ret |-> "",
                       doc |-> "", body |-> "first"],
      ping        |-> [name |-> "ping", params |-> <<>>,
                       ann |-> <<>>, ret |-> "<class 'str'>",
                       doc |-> "", body |-> "first"],
      m1_add      |-> [name |-> "add", params |-> <<"x", "y">>,
                       ann |-> <<"<class 'int'>", "<class 'int'>">>,
                       ret |-> "<class 'int'>",
                       doc |-> "", body |-> "product"],
      m1_mul      |-> [name |-> "mul", params |-> <<"x", "y">>,
                       ann |-> <<"<class 'int'>", "<class 'int'>">>,
                       ret |-> "<class 'int'>",
                       doc |-> "", body |-> "product"],
      m1_extract  |-> [name |-> "extract_json", params |-> <<"text">>,
                       ann |-> <<"<class 'str'>">>, ret |-> "<class 'str'>",
                       doc |-> "", body |-> "first"],
      fail_import |-> [name |-> "fail_import", params |-> <<>>,
                       ann |-> <<>>, ret |-> "",
                       doc |-> "", body |-> "ImportError"],
      fail_attr   |-> [name |-> "fail_attr", params |-> <<>>,
                       ann |-> <<>>, ret |-> "",
                       doc |-> "", body |-> "AttributeError"],
      fail_json   |-> [name |-> "fail_json", params |-> <<>>,
                       ann |-> <<>>, ret |-> "",
                       doc |-> "", body |-> "JSONDecodeError"],
      fail_value  |-> [name |-> "fail_value", params |-> <<>>,
                       ann |-> <<>>, ret |-> "",
                       doc |-> "", body |-> "ValueError"],
      extract_json |-> [name |-> "extract_json", params |-> <<"text">>,
                       ann |-> <<"<class 'str'>">>, ret |-> "typing.Optional[str]",
                       doc |-> "doc", body |-> "extract_json"],
      register_function |->
                      [name |-> "register_function", params |-> <<"module_path">>,
                       ann |-> <<"<class 'str'>">>, ret |-> "None",
                       doc |-> "doc", body |-> "register_function"] ]

\* the error classes a tool body raises
ToolErrors == {"ImportError", "AttributeError", "JSONDecodeError", "ValueError"}

\* the functions a program under test declares with @function_tool
StaticFunctions == {"add_xy", "add_a", "ping"}

\* What importlib.import_module finds.  m1 imports and has these attributes;
\* importing broken runs module code that raises SyntaxError; every other
\* name, "__runtime__" included, is no module.
ModuleAttrs ==
    [ m1 |-> [add |-> "m1_add", mul |-> "m1_mul", extract_json |-> "m1_extract",
              fail_import |-> "fail_import", fail_attr |-> "fail_attr",
              fail_json |-> "fail_json", fail_value |-> "fail_value"] ]

BrokenModules == {"broken"}

\* globals() of tool.py, for the names the modelled selections can carry:
\* json is a module object, extract_json and register_function the
\* functions of tool.py.  No function declared with @function_tool is put
\* there.
tool_py_globals ==
    [ json |-> [callable |-> FALSE, fn |-> ""],
      extract_json |-> [callable |-> TRUE, fn |-> "extract_json"],
      register_function |-> [callable |-> TRUE, fn |-> "register_function"] ]

\* importlib.import_module(path): a module, or the error it raises
import_module(path) ==
    IF path.t # "str" THEN Raise("AttributeError")    \* path.startswith
    ELSE IF path.v = "" THEN Raise("ValueError")      \* Empty module name
    ELSE IF path.v \in DOMAIN ModuleAttrs THEN [kind |-> "module", name |-> path.v]
    ELSE IF path.v \in BrokenModules THEN Raise("SyntaxError")
    ELSE Raise("ImportError")                         \* ModuleNotFoundError

\* the parameters of function fn as a set
ParamSet(fn) == {Functions[fn].params[k] : k \in DOMAIN Functions[fn].params}

\* the body of function fn run on keyword arguments kw (a dict that binds
\* exactly the parameters): a returned value or a raised error.  The body
\* of register_function works on the file and the LLM; what it returns or
\* raises is worked out by call_register_function.
run_body(fn, kw) ==
    LET f == Functions[fn]
    IN  IF f.body \in ToolErrors THEN Raise(f.body)
        ELSE IF f.body = "register_function" THEN [kind |-> "effect"]
        ELSE IF f.body = "first" THEN
            [kind |-> "return",
             val |-> IF f.params = <<>> THEN JStr("pong") ELSE kw[f.params[1]]]
        ELSE IF f.body = "extract_json" THEN
            \* text.find on a non-str raises AttributeError; no modelled
            \* string holds a brace
            IF kw["text"].t = "str" THEN [kind |-> "return", val |-> JNone]
            ELSE Raise("AttributeError")
        ELSE IF kw["x"].t = "num" /\ kw["y"].t = "num" THEN
            [kind |-> "return",
             val |-> JNum(IF f.body = "sum" THEN kw["x"].v + kw["y"].v
                          ELSE kw["x"].v * kw["y"].v)]
        ELSE Raise("TypeError")

\* target(**arguments) in Python: the TypeErrors of the call itself (a
\* target that is not callable, arguments that are no mapping, keywords that
\* do not bind the parameters), else the body.  by: who raised or returned.
call_kwargs(callable, fn, arguments) ==
    IF ~callable THEN [by |-> "call", out |-> Raise("TypeError")]
    ELSE IF arguments.t # "obj" THEN [by |-> "call", out |-> Raise("TypeError")]
    ELSE IF DOMAIN arguments.v # ParamSet(fn)
        THEN [by |-> "call", out |-> Raise("TypeError")]
    ELSE [by |-> "tool", out |-> run_body(fn, arguments.v)]

-----------------------------------------------------------------------------
(* ToolManager: the registry file and the registered functions *)

\* The file tools.json: whether it exists, what its text is ("json": a JSON
\* document; "empty": nothing, as open(.., "w") leaves it; "broken": text
\* that is no JSON document), and the dict a JSON document holds.
NoFile == [exists |-> FALSE, text |-> "json", content |-> EmptyDict]
Document(tools) == [exists |-> TRUE, text |-> "json", content |-> tools]

\* open(file_path, "w") truncates the file
Emptied == [exists |-> TRUE, text |-> "empty", content |-> EmptyDict]

\* what json.dump leaves when it raises: the chunks written before the
\* error; and what two writers leave whose texts overlay each other
Truncated == [exists |-> TRUE, text |-> "broken", content |-> EmptyDict]

\* get_tools_path: the file is created holding {} when it does not exist
get_tools_path(file) ==
    IF file.exists THEN file ELSE Document(EmptyDict)

\* load_tools: the error json.load raises ("" for none), the file after the
\* call and the dict read from it
load_tools(file) ==
    LET f == get_tools_path(file)
    IN  [exc |-> IF f.text = "json" THEN "" ELSE "JSONDecodeError",
         file |-> f, tools |-> f.content]

\* json can encode v: strings, numbers, booleans, None, and the dicts and
\* lists of such values; bytes are of no type the encoder knows
RECURSIVE Serializable(_)
Serializable(v) ==
    IF v.t = "bytes" THEN FALSE
    ELSE IF v.t = "obj" THEN \A k \in DOMAIN v.v : Serializable(v.v[k])
    ELSE IF v.t = "list" THEN \A i \in DOMAIN v.v : Serializable(v.v[i])
    ELSE TRUE

\* the number of characters of the strings that static records are made of
StrLen(str) ==
    CASE str \in {""} -> 0
      [] str \in {"x", "y", "a"} -> 1
      [] str \in {"add", "Any", "doc"} -> 3
      [] str \in {"ping"} -> 4
      [] str \in {"return"} -> 6
      [] str \in {"tool_name", "arguments", "docstring"} -> 9
      [] str \in {"is_runtime"} -> 10
      [] str \in {"module_path", "__runtime__"} -> 11
      [] str \in {"tool_call_id"} -> 12
      [] str \in {"<class 'int'>", "<class 'str'>"} -> 13

\* the number of characters json.dump(.., indent=4) writes for value v
\* nested d levels deep: a dict is "{", one line per key indented by four
\* spaces per level, lines separated by ",", and "}" on a line of its own;
\* a tool_call_id is "tool_" and the 36 characters of a uuid, in quotes
RECURSIVE JsonLen(_, _)
RECURSIVE LinesLen(_, _, _)
JsonLen(v, d) ==
    IF v.t = "str" THEN StrLen(v.v) + 2
    ELSE IF v.t = "id" THEN 43
    ELSE IF v.t = "bool" THEN (IF v.v THEN 4 ELSE 5)
    ELSE IF v.t = "none" THEN 4
    ELSE IF v.t = "num" THEN 1
    ELSE IF v.v = EmptyDict THEN 2
    ELSE 1 + LinesLen(v.v, DOMAIN v.v, d + 1) + 1 + 4 * d + 1

\* the lines of the keys in `keys` of dict f at depth d, each with the line
\* break (and, but for the last, the comma) that ends it
LinesLen(f, keys, d) ==
    IF keys = {} THEN 0 - 1
    ELSE LET k == CHOOSE x \in keys : TRUE
         IN  1 + 4 * d + StrLen(k) + 2 + 2 + JsonLen(f[k], d) + 1
               + LinesLen(f, keys \ {k}, d)

\* the text json.dump writes for the dict tools
DocumentLen(tools) == JsonLen(JObj([name \in DOMAIN tools |-> JObj(tools[name])]), 0)

\* line 48 of save_tools: the file opened for writing
open_w(file) == Emptied

\* line 49 of save_tools, the text reaching the file when it is closed: the
\* error json.dump raises ("" for none) and the file after it.  The writer
\* writes from the start of the file; text written by another writer since
\* this one opened the file stays behind the new text where it is longer.
\* overlaid: the file this writer leaves when it writes over such a text.
dump(file, tools, overlaid) ==
    IF ~(\A name \in DOMAIN tools : Serializable(JObj(tools[name])))
        THEN [exc |-> "TypeError", file |-> Truncated]
    ELSE IF file.text = "empty" THEN [exc |-> "", file |-> Document(tools)]
    ELSE [exc |-> "", file |-> overlaid]

\* save_tools: the whole document is replaced by tools; the error json.dump
\* raises ("" for none) and the file after the call
save_tools(file, tools) ==
    dump(open_w(get_tools_path(file)), tools, Document(tools))

\* a faulty upsert that keeps the fields of the old record the new one lacks
upsert_merge(tools, name, record) ==
    IF name \in DOMAIN tools
    THEN Put(tools, name,
             [k \in (DOMAIN tools[name]) \cup (DOMAIN record) |->
                 IF k \in DOMAIN record THEN record[k] ELSE tools[name][k]])
    ELSE Put(tools, name, record)

\* tools[name] = record
upsert(tools, name, record) == Put(tools, name, record)

\* uuid.uuid4(): a value never handed out before
uuid4(counter) == counter

\* "tool_" + str(uuid)
ToolCallId(id) == [t |-> "id", v |-> id]

\* ToolManager.register_function(func, metadata): the registered functions
\* and the file after the call
manager_register_function(registered, file, fn, metadata) ==
    LET name == Functions[fn].name
        held == Put(registered, name, fn)                       \* line 54
        loaded == load_tools(file)
        saved == save_tools(loaded.file, upsert(loaded.tools, name, metadata))
    IN  IF loaded.exc # ""
        THEN [exc |-> loaded.exc, registered |-> held, file |-> loaded.file]
        ELSE [exc |-> saved.exc, registered |-> held, file |-> saved.file]

-----------------------------------------------------------------------------
(* function_tool *)

\* str(annotation), or "Any" for a missing annotation
annotation_text(a) == IF a = "" THEN "Any" ELSE a

\* a faulty metadata builder that loses the last parameter and marks the
\* record as file-based
function_metadata_lossy(fn, id) ==
    LET f == Functions[fn]
        kept == {f.params[k] : k \in 1..(Len(f.params) - 1)}
    IN  [tool_name |-> JStr(f.name),
         arguments |-> JObj([q \in kept |-> JStr("Any")]),
         return |-> JStr(annotation_text(f.ret)),
         docstring |-> JStr(f.doc),
         module_path |-> JStr(f.name),
         tool_call_id |-> ToolCallId(id),
         is_runtime |-> JBool(FALSE)]

\* lines 81-100: the metadata of function fn, with id from uuid4
function_metadata(fn, id) ==
    LET f == Functions[fn]
        module_path == "__runtime__"
    IN  [tool_name |-> JStr(f.name),
         arguments |->
            JObj([q \in ParamSet(fn) |->
                    JStr(annotation_text(
                        f.ann[CHOOSE k \in DOMAIN f.params : f.params[k] = q]))]),
         return |-> JStr(annotation_text(f.ret)),
         docstring |-> JStr(f.doc),
         module_path |-> JStr(module_path),
         tool_call_id |-> ToolCallId(id),
         is_runtime |-> JBool(module_path = "__runtime__")]

\* func(*args, **kwargs): the positional arguments bind the first
\* parameters, the keyword arguments the others by name (the modelled
\* functions have no defaults); a TypeError of the call itself when that
\* does not bind every parameter once, else the body
call_function(fn, args, kwargs) ==
    LET params == Functions[fn].params
        rest == {params[k] : k \in (Len(args) + 1)..Len(params)}
    IN  IF Len(args) > Len(params) \/ DOMAIN kwargs # rest
        THEN Raise("TypeError")
        ELSE run_body(fn, [q \in ParamSet(fn) |->
                             IF q \in rest THEN kwargs[q]
                             ELSE args[CHOOSE k \in 1..Len(args) : params[k] = q]])

\* a faulty wrapper that returns None when the function raises
wrapper_swallow(fn, args, kwargs) ==
    IF call_function(fn, args, kwargs).kind = "raise"
    THEN [kind |-> "return", val |-> JNone]
    ELSE call_function(fn, args, kwargs)

\* lines 69-71: wrapper(*args, **kwargs) returns func(*args, **kwargs)
wrapper(fn, args, kwargs) == call_function(fn, args, kwargs)

-----------------------------------------------------------------------------
(* register_function(module_path) *)

\* a faulty record that keeps the module path the LLM wrote when it wrote one
entry_record_echo(tool, module_path, id) ==
    Put(IF "module_path" \in DOMAIN tool THEN tool
        ELSE Put(tool, "module_path", JStr(module_path)),
        "tool_call_id", ToolCallId(id))

\* the record kept for one entry of the LLM's list: the entry with
\* module_path set to the requested path and tool_call_id to a new id
entry_record(tool, module_path, id) ==
    Put(Put(tool, "module_path", JStr(module_path)),
        "tool_call_id", ToolCallId(id))

\* the for loop of lines 142-146 from item i on: tools as mutated so far,
\* the id counter, the (name, record) pairs written so far, and the error
\* that ended the loop ("" for none).  The modelled replies name tools by
\* strings (or by a dict, or not at all).
RECURSIVE register_entries(_, _, _, _, _, _)
register_entries(items, i, module_path, tools, counter, written) ==
    IF i > Len(items)
        THEN [exc |-> "", tools |-> tools, counter |-> counter, written |-> written]
    ELSE
        LET tool == items[i]
            stop(c) == [exc |-> c, tools |-> tools, counter |-> counter,
                        written |-> written]
        IN  IF tool.t # "obj" THEN stop("TypeError")   \* no item assignment
            ELSE IF "tool_name" \notin DOMAIN tool.v THEN stop("KeyError")
            ELSE IF tool.v["tool_name"].t \in {"obj", "list"}
                THEN stop("TypeError")                 \* unhashable key
            ELSE
                LET name == tool.v["tool_name"].v
                    id == uuid4(counter)
                    record == entry_record(tool.v, module_path, id)
                IN  register_entries(items, i + 1, module_path,
                                     upsert(tools, name, record), counter + 1,
                                     Append(written, [name |-> name, record |-> record]))

\* what iterating new_tools gives: the items of a list, nothing for an empty
\* dict or an empty string, the keys or characters (strings) of a non-empty
\* one; a number or None is not iterable
iterate(new_tools) ==
    IF new_tools.t = "list" THEN [ok |-> TRUE, items |-> new_tools.v]
    ELSE IF new_tools.t = "obj" THEN
        [ok |-> TRUE,
         items |-> IF new_tools.v = EmptyDict THEN <<>> ELSE <<JStr("key")>>]
    ELSE IF new_tools.t = "str" THEN
        [ok |-> TRUE,
         items |-> IF new_tools.v = "" THEN <<>> ELSE <<JStr("char")>>]
    ELSE [ok |-> FALSE, items |-> <<>>]

\* register_function(module_path) when the LLM answers with `text`: the error
\* raised ("" for none), the file and the id counter after the call, the
\* records written, and the steps taken in order ("llm": llm.invoke,
\* "load": load_tools, "save": save_tools)
register_function(file, counter, module_path, text) ==
    LET module == import_module(JStr(module_path))
        new_tools == literal_eval(text)
        fail(c, f, n, io) == [exc |-> c, file |-> f, counter |-> n,
                              written |-> <<>>, io |-> io]
    IN  IF module.kind = "raise" THEN
            \* except (ImportError, ValueError): raise ValueError
            IF module.exc \in {"ImportError", "ValueError"}
            THEN fail("ValueError", file, counter, <<>>)
            ELSE fail(module.exc, file, counter, <<>>)
        ELSE IF new_tools.kind = "raise"
            THEN fail("ValueError", file, counter, <<"llm">>)
        ELSE
            LET loaded == load_tools(file)
                it == iterate(new_tools.val)
                done == register_entries(it.items, 1, module_path, loaded.tools,
                                         counter, <<>>)
                saved == save_tools(loaded.file, done.tools)
            IN  IF loaded.exc # ""
                    THEN fail(loaded.exc, loaded.file, counter, <<"llm", "load">>)
                ELSE IF ~it.ok
                    THEN fail("TypeError", loaded.file, counter, <<"llm", "load">>)
                ELSE IF done.exc # ""
                    THEN fail(done.exc, loaded.file, done.counter, <<"llm", "load">>)
                ELSE IF saved.exc # ""
                    THEN fail(saved.exc, saved.file, done.counter,
                              <<"llm", "load", "save">>)
                ELSE [exc |-> "", file |-> saved.file, counter |-> done.counter,
                      written |-> done.written, io |-> <<"llm", "load", "save">>]

-----------------------------------------------------------------------------
(* tool_calling *)

Return(v) == [kind |-> "return", val |-> v]

\* What one run of tool_calling did.  result: Return(v) or Raise(c), as the
\* caller sees it; by: the step that decided it ("fallback", "parse", "key",
\* "lookup", "import", "getattr", "call", "tool"); logged: an error was
\* caught and logged; llm: the calls of llm.invoke, in order;
\* imports: the module paths given to import_module; invoked: the functions
\* whose body ran; reg: what register_function did when it was the function
\* called.
NoReg == [kind |-> "none"]

Outcome(result, by, logged, llm, imports, invoked) ==
    [result |-> result, by |-> by, logged |-> logged, llm |-> llm,
     imports |-> imports, invoked |-> invoked, reg |-> NoReg]

\* one llm.invoke: the selection prompt built from the task, or the task
\* itself as the prompt, with the content of the LLM's reply
\* or the module prompt of register_function
SelectPrompt(task, reply) == [kind |-> "select", task |-> task, reply |-> reply]
ModulePrompt(module_path, reply) ==
    [kind |-> "module", task |-> module_path, reply |-> reply]
DirectPrompt(task, reply) == [kind |-> "direct", task |-> task, reply |-> reply]

\* a faulty fallback test that forgets the "None" check
takes_fallback_null_only(tool_data) == tool_data = None

\* line 172: not tool_data or "None" in tool_data
takes_fallback(tool_data) ==
    \/ tool_data = None
    \/ tool_data.val = <<>>
    \/ contains_None(tool_data.val)

\* line 187: except (json.JSONDecodeError, ImportError, AttributeError)
caught(exc) == exc \in {"JSONDecodeError", "ImportError", "AttributeError"}

\* leaving the try block with result r decided by step `by`: an error of a
\* caught class is logged and None returned, anything else goes to the caller
leave_try(r, by, llm, imports, invoked) ==
    IF r.kind = "raise" /\ caught(r.exc)
    THEN Outcome(Return(JNone), by, TRUE, llm, imports, invoked)
    ELSE Outcome(r, by, FALSE, llm, imports, invoked)

\* globals()["register_function"](**arguments) with the parameter bound:
\* register_function runs on the file (world.file, world.counter) and the
\* LLM answers its prompt with world.text
call_register_function(arguments, llm, world) ==
    LET path == arguments.v["module_path"]
        done == register_function(world.file, world.counter, path.v, world.text)
        llm2 == IF done.io # <<>>
                THEN Append(llm, ModulePrompt(path.v, world.text)) ELSE llm
        result == IF done.exc = "" THEN Return(JNone) ELSE Raise(done.exc)
    IN  IF path.t # "str"
        THEN leave_try(import_module(path), "tool", llm, <<>>,
                       <<"register_function">>)
        ELSE [leave_try(result, "tool", llm2, <<>>, <<"register_function">>)
                EXCEPT !.reg = done]

\* lines 181-186 with the three values read from the selection
dispatch(func_name, arguments, module_path, llm, world) ==
    IF func_name.t \in {"obj", "list"}
        \* func_name in globals(): unhashable type
        THEN leave_try(Raise("TypeError"), "lookup", llm, <<>>, <<>>)
    ELSE IF func_name.t = "str" /\ func_name.v \in DOMAIN tool_py_globals THEN
        LET g == tool_py_globals[func_name.v]
            c == call_kwargs(g.callable, g.fn, arguments)
        IN  IF c.by = "tool" /\ g.fn = "register_function"
            THEN call_register_function(arguments, llm, world)
            ELSE leave_try(c.out, c.by, llm, <<>>,
                           IF c.by = "tool" THEN <<g.fn>> ELSE <<>>)
    ELSE
        LET module == import_module(module_path)
            imports == <<module_path>>
        IN  IF module.kind = "raise"
                THEN leave_try(module, "import", llm, imports, <<>>)
            ELSE IF func_name.t # "str"
                \* getattr(): attribute name must be string
                THEN leave_try(Raise("TypeError"), "getattr", llm, imports, <<>>)
            ELSE IF func_name.v \notin DOMAIN ModuleAttrs[module.name]
                THEN leave_try(Raise("AttributeError"), "getattr", llm, imports, <<>>)
            ELSE
                LET fn == ModuleAttrs[module.name][func_name.v]
                    c == call_kwargs(TRUE, fn, arguments)
                IN  leave_try(c.out, c.by, llm, imports,
                              IF c.by = "tool" THEN <<fn>> ELSE <<>>)

\* lines 169-186: the run once the registry is loaded
select_and_call(task, response, answer, world) ==
    LET llm1 == <<SelectPrompt(task, response)>>
        tool_data == extract_json(response)
    IN  IF tool_data.kind = "raise"
            THEN Outcome(tool_data, "extract", FALSE, llm1, <<>>, <<>>)
        ELSE IF takes_fallback(tool_data)
            THEN Outcome(Return(JStr(answer)), "fallback", FALSE,
                         Append(llm1, DirectPrompt(task, answer)), <<>>, <<>>)
        ELSE
            LET tool_call == json_loads(tool_data.val)
            IN  IF tool_call.kind = "raise"
                    THEN leave_try(tool_call, "parse", llm1, <<>>, <<>>)
                ELSE IF tool_call.val.t # "obj"
                    \* subscripting a list or a number with a string
                    THEN leave_try(Raise("TypeError"), "key", llm1, <<>>, <<>>)
                ELSE IF \E k \in {"tool_name", "arguments", "module_path"} :
                            k \notin DOMAIN tool_call.val.v
                    THEN leave_try(Raise("KeyError"), "key", llm1, <<>>, <<>>)
                ELSE dispatch(tool_call.val.v["tool_name"],
                              tool_call.val.v["arguments"],
                              tool_call.val.v["module_path"], llm1, world)

\* tool_calling(task) on the file and the id counter, when the LLM answers
\* the selection prompt with `response`, a direct question with `answer`
\* and a module prompt with `text`: what the run did.  load_tools (line
\* 154) is outside the try block.
tool_calling(file, counter, task, response, answer, text) ==
    IF load_tools(file).exc # ""
    THEN Outcome(Raise(load_tools(file).exc), "load", FALSE, <<>>, <<>>, <<>>)
    ELSE select_and_call(task, response, answer,
                         [file |-> load_tools(file).file, counter |-> counter,
                          text |-> text])

\* the file and the id counter a run of tool_calling leaves: the file that
\* load_tools found or created, or what register_function made of it
file_after(file, out) ==
    IF out.reg = NoReg THEN load_tools(file).file ELSE out.reg.file

counter_after(counter, out) ==
    IF out.reg = NoReg THEN counter ELSE out.reg.counter

-----------------------------------------------------------------------------
(* The texts the LLM writes *)

\* the parts of a sequence of texts joined by commas
RECURSIVE Join(_)
Join(parts) ==
    IF parts = <<>> THEN <<>>
    ELSE IF Len(parts) = 1 THEN parts[1]
    ELSE parts[1] \o <<",">> \o Join(Tail(parts))

\* "k": v
KV(k, v) == <<k, ":">> \o v

\* {...} and [...] around comma-separated parts
Braces(parts) == <<"{">> \o Join(parts) \o <<"}">>
Brackets(parts) == <<"[">> \o Join(parts) \o <<"]">>

NoneWord == <<"N", "o", "n", "e">>

\* the keyword arguments a selection may carry
ArgsXY == Braces(<<KV("x", <<"2">>), KV("y", <<"3">>)>>)
ArgsX == Braces(<<KV("x", <<"2">>)>>)
ArgsText == Braces(<<KV("text", <<"x">>)>>)
ArgsNone == Braces(<<>>)
ArgsModule(path) == Braces(<<KV("module_path", path)>>)

\* a selection with all three keys
Selection(tool_name, arguments, module_path) ==
    Braces(<<KV("tool_name", tool_name), KV("arguments", arguments),
             KV("module_path", module_path)>>)

SelectionNames ==
    {"add", "mul", "ghost", "extract_json", "json",
     "fail_import", "fail_attr", "fail_json", "fail_value"}

\* well-formed selections
FullSelections ==
    {Selection(<<n>>, a, <<m>>) :
        n \in SelectionNames,
        a \in {ArgsXY, ArgsNone},
        m \in {"__runtime__", "m1"}}

\* selections that lack a key, carry a value of another type, name a module
\* that does not import, or are wrapped in other text
OddSelections ==
    { Braces(<<>>),
      Braces(<<KV("tool_name", <<"add">>)>>),
      Braces(<<KV("tool_name", <<"add">>), KV("arguments", ArgsXY)>>),
      Braces(<<KV("arguments", ArgsXY), KV("module_path", <<"m1">>)>>),
      Selection(<<"add">>, <<"x">>, <<"m1">>),
      Selection(<<"add">>, Brackets(<<<<"2">>, <<"3">>>>), <<"m1">>),
      Selection(<<"add">>, ArgsX, <<"m1">>),
      Selection(<<"add">>, Braces(<<KV("x", <<"2">>), KV("y", <<"a">>)>>), <<"m1">>),
      Selection(<<"2">>, ArgsNone, <<"m1">>),
      Selection(Braces(<<>>), ArgsNone, <<"m1">>),
      Selection(<<"mul">>, ArgsXY, <<"">>),
      Selection(<<"mul">>, ArgsXY, <<"broken">>),
      Selection(<<"mul">>, ArgsXY, <<"2">>),
      Selection(<<"ghost">>, ArgsNone, <<"">>),
      Selection(<<"ghost">>, ArgsNone, <<"nomod">>),
      Selection(<<"json">>, ArgsNone, <<"nomod">>),
      Selection(<<"extract_json">>, ArgsText, <<"m1">>),
      Selection(<<"extract_json">>, Braces(<<KV("text", <<"2">>)>>), <<"m1">>),
      Selection(<<"register_function">>, ArgsModule(<<"m1">>), <<"m1">>),
      Selection(<<"register_function">>, ArgsModule(<<"nomod">>), <<"m1">>),
      Selection(<<"register_function">>, ArgsModule(<<"2">>), <<"m1">>),
      Selection(<<"register_function">>, ArgsNone, <<"m1">>),
      <<"x">> \o Selection(<<"mul">>, ArgsXY, <<"m1">>) \o <<"x">>,
      Selection(<<"mul">>, ArgsXY, <<"m1">>) \o NoneWord,
      <<"}">> \o Selection(<<"add">>, ArgsXY, <<"__runtime__">>),
      Selection(<<"add">>, ArgsXY, <<"__runtime__">>)
          \o Selection(<<"mul">>, ArgsXY, <<"m1">>) }

\* replies that hold no object, an unclosed one, one that is not JSON, or
\* the word None
LooseReplies ==
    { <<>>,
      <<"x">>,
      <<"n", "o", "n", "e", ":">> \o NoneWord,
      NoneWord,
      <<"{">> \o KV("tool_name", <<"add">>),
      <<"{", "x", "}">>,
      <<"{", "tool_name", "add", "}">>,
      <<"{", "{", "}", "}">>,
      <<"{", "N", "o", "n", "}">>,
      Braces(<<KV("tool_name", NoneWord)>>),
      Selection(NoneWord, ArgsNone, <<"m1">>),
      Selection(<<"mul">>, ArgsXY, NoneWord),
      <<"x">> \o Braces(<<KV("a", Braces(<<KV("x", NoneWord)>>))>>) \o <<"x">> }

\* what the LLM may answer to the selection prompt
Responses == FullSelections \cup OddSelections \cup LooseReplies

\* what the LLM may answer to a task asked directly
Answers == {"x", "doc"}

Tasks == {"a", "text"}

\* one entry of the list the LLM writes for a module
Entry(fields) == Braces(fields)

\* what the LLM may answer to the module prompt
ModuleReplies ==
    { Brackets(<<Entry(<<KV("tool_name", <<"mul">>), KV("module_path", <<"m1">>)>>)>>),
      Brackets(<<Entry(<<KV("tool_name", <<"add">>), KV("docstring", <<"doc">>),
                         KV("module_path", <<"stale">>),
                         KV("tool_call_id", <<"stale">>)>>)>>),
      Brackets(<<Entry(<<KV("tool_name", <<"mul">>), KV("docstring", <<"stale">>)>>),
                 Entry(<<KV("tool_name", <<"mul">>)>>)>>),
      Brackets(<<Entry(<<KV("tool_name", <<"ping">>), KV("arguments", ArgsNone)>>),
                 Entry(<<KV("docstring", <<"doc">>)>>)>>),
      Brackets(<<Entry(<<KV("tool_name", <<"ping">>)>>), <<"2">>>>),
      Brackets(<<Entry(<<KV("tool_name", Braces(<<>>))>>)>>),
      <<"[">> \o Entry(<<KV("tool_name", <<"ping">>)>>) \o <<",", "]">>,
      Brackets(<<Entry(<<KV("tool_name", <<"mul">>), KV("is_runtime", TrueWord)>>)>>),
      Brackets(<<Entry(<<KV("tool_name", <<"zeta">>),
                         KV("arguments", <<"b'x'">>)>>)>>),
      Brackets(<<>>),
      Braces(<<>>),
      Braces(<<KV("tool_name", <<"mul">>)>>),
      <<"x">>,
      <<"">>,
      <<"2">>,
      NoneWord,
      <<"[", "{">>,
      <<"x", "[", "]">> }

\* the arguments a wrapper is called with
WrapperArgs ==
    {<<>>, <<JNum(2)>>, <<JNum(2), JNum(3)>>, <<JNum(2), JStr("a")>>}

WrapperKwargs ==
    {EmptyDict, [y |-> JNum(3)], [x |-> JNum(2), y |-> JNum(3)]}

\* the module paths register_function is called with
ModulePaths == {"m1", "nomod", "broken", ""}

-----------------------------------------------------------------------------
(* The program: registrations and dispatches in any order *)

NoCall == [kind |-> "none"]

InitCommon ==
    /\ registered_functions = EmptyDict
    /\ tools_file = NoFile
    /\ uuid_next = 1
    /\ issued = <<>>
    /\ last_reg = NoCall
    /\ call = NoCall
    /\ wrappers = {}
    /\ wcall = NoCall

Init ==
    /\ InitCommon
    /\ procs = <<>>
    /\ xtext = <<>>
    /\ xresult = None

\* The program is single-threaded: an operation starts when the one before
\* it has returned to its caller.
Idle == call = NoCall /\ last_reg = NoCall /\ wcall = NoCall

\* the ids uuid4 hands out while the counter goes from `from` to `to`
Issued(from, to) == [k \in 1..(to - from) |-> uuid4(from + k - 1)]

\* a function is declared with @function_tool
FunctionTool(fn) ==
    /\ Idle
    /\ uuid_next <= MaxIds
    /\ \E done \in {manager_register_function(
                          registered_functions, tools_file, fn,
                          function_metadata(fn, uuid4(uuid_next)))} :
       LET id == uuid4(uuid_next)
           metadata == function_metadata(fn, id)
       IN  /\ registered_functions' = done.registered
           /\ tools_file' = done.file
           /\ issued' = Append(issued, id)
           /\ last_reg' = [kind |-> "static", fn |-> fn, exc |-> done.exc,
                           written |-> IF done.exc # "" THEN <<>>
                                       ELSE <<[name |-> Functions[fn].name,
                                               record |-> metadata]>>,
                           before |-> tools_file,
                           held |-> registered_functions]
           /\ wrappers' = IF done.exc = "" THEN wrappers \cup {fn} ELSE wrappers
    /\ uuid_next' = uuid_next + 1
    /\ UNCHANGED <<call, wcall, procs, xtext, xresult>>

\* register_function(module_path) is called and the LLM answers with text
RegisterModule(module_path, text) ==
    /\ Idle
    /\ \E done \in {register_function(tools_file, uuid_next, module_path, text)} :
        /\ done.counter <= MaxIds + 1
        /\ tools_file' = done.file
        /\ uuid_next' = done.counter
        /\ issued' = issued \o Issued(uuid_next, done.counter)
        /\ last_reg' = [kind |-> "module", module_path |-> module_path,
                        text |-> text, exc |-> done.exc,
                        written |-> done.written, io |-> done.io,
                        before |-> tools_file]
    /\ UNCHANGED <<registered_functions, call, wrappers, wcall, procs,
                   xtext, xresult>>

\* the texts the LLM may answer to the module prompt of a tool_calling run
\* that gets as far as register_function; no text when it does not
NestedReplies(task, response, answer) ==
    IF \E out \in {tool_calling(tools_file, uuid_next, task, response, answer,
                                 <<>>)} :
            out.llm # <<>> /\ out.llm[Len(out.llm)].kind = "module"
    THEN ModuleReplies
    ELSE {<<>>}

\* tool_calling(task) is called; the LLM answers the selection prompt with
\* response, the task asked directly with answer and a module prompt with
\* text
ToolCalling(task, response, answer) ==
    /\ Idle
    /\ \E text \in NestedReplies(task, response, answer) :
        \E out \in {tool_calling(tools_file, uuid_next, task, response, answer,
                                  text)} :
            /\ counter_after(uuid_next, out) <= MaxIds + 1
            /\ tools_file' = file_after(tools_file, out)
            /\ uuid_next' = counter_after(uuid_next, out)
            /\ issued' = issued \o Issued(uuid_next, counter_after(uuid_next, out))
            /\ call' = [task |-> task, out |-> out, before |-> tools_file,
                        held |-> registered_functions]
    /\ UNCHANGED <<registered_functions, last_reg, wrappers, wcall, procs,
                   xtext, xresult>>

\* the wrapper that @function_tool returned for fn is called
CallWrapper(fn, args, kwargs) ==
    /\ Idle
    /\ fn \in wrappers
    /\ wcall' = [fn |-> fn, args |-> args, kwargs |-> kwargs,
                 out |-> wrapper(fn, args, kwargs),
                 before |-> tools_file, held |-> registered_functions,
                 issued |-> issued]
    /\ UNCHANGED <<registered_functions, tools_file, uuid_next, issued,
                   last_reg, call, wrappers, procs, xtext, xresult>>

\* the operation returns (or raises) to its caller, which takes the outcome
ReturnToCaller ==
    /\ ~Idle
    /\ call' = NoCall
    /\ last_reg' = NoCall
    /\ wcall' = NoCall
    /\ UNCHANGED <<registered_functions, tools_file, uuid_next, issued,
                   wrappers, procs, xtext, xresult>>

Next ==
    \/ \E fn \in StaticFunctions : FunctionTool(fn)
    \/ \E m \in ModulePaths, text \in ModuleReplies : RegisterModule(m, text)
    \/ \E task \in Tasks, response \in Responses, answer \in Answers :
            ToolCalling(task, response, answer)
    \/ \E fn \in StaticFunctions, args \in WrapperArgs, kwargs \in WrapperKwargs :
            CallWrapper(fn, args, kwargs)
    \/ ReturnToCaller

Spec == Init /\ [][Next]_vars

-----------------------------------------------------------------------------
(* The extractor runs: extract_json applied to every text of up to MaxLen  *)
(* symbols over "{", "}" and one other character.                          *)

XAlphabet == {"{", "}", "x"}

XTexts == UNION {[1..n -> XAlphabet] : n \in 0..MaxLen}

Pending == [kind |-> "pending"]

XInit ==
    /\ InitCommon
    /\ procs = <<>>
    /\ xtext \in XTexts
    /\ xresult = Pending

ExtractJson ==
    /\ xresult = Pending
    /\ xresult' = extract_json(xtext)
    /\ UNCHANGED <<registered_functions, tools_file, uuid_next, issued,
                   last_reg, call, wrappers, wcall, procs, xtext>>

XNext == ExtractJson

XSpec == XInit /\ [][XNext]_vars

-----------------------------------------------------------------------------
(* Concurrent runs: two callers declare functions with @function_tool at   *)
(* the same time, as threads of one process.  The steps of one caller are  *)
(* the ones of function_tool and ToolManager.register_function; a step of  *)
(* the other caller may come between any two of them.                      *)

Callers == 1..2

\* a caller about to declare fn
Starting(fn) ==
    [pc |-> "start", fn |-> fn, tools |-> EmptyDict, stamp |-> 0, after |-> {}]

CInit ==
    /\ InitCommon
    /\ procs \in [Callers -> {Starting(fn) : fn \in StaticFunctions}]
    /\ xtext = <<>>
    /\ xresult = None

\* the callers that have returned or raised
Ended == {q \in Callers : procs[q].pc \in {"done", "failed"}}

\* lines 98 and 54-56: the id is minted, the function put into the
\* registered functions, the file loaded and the record set in the loaded
\* dict; a file that is no JSON document ends the call with an error
CLoad(p) ==
    /\ procs[p].pc = "start"
    /\ \E loaded \in {load_tools(tools_file)} :
        LET fn == procs[p].fn
            name == Functions[fn].name
            id == uuid4(uuid_next)
        IN  /\ registered_functions' = Put(registered_functions, name, fn)
            /\ tools_file' = loaded.file
            /\ issued' = Append(issued, id)
            /\ procs' = [procs EXCEPT ![p] =
                   [pc |-> IF loaded.exc = "" THEN "loaded" ELSE "failed",
                    fn |-> fn,
                    tools |-> upsert(loaded.tools, name, function_metadata(fn, id)),
                    stamp |-> 0,
                    after |-> Ended]]
    /\ uuid_next' = uuid_next + 1
    /\ UNCHANGED <<last_reg, call, wrappers, wcall, xtext, xresult>>

\* lines 46-48 of save_tools: the file is opened for writing
COpen(p) ==
    /\ procs[p].pc = "loaded"
    /\ tools_file' = open_w(get_tools_path(tools_file))
    /\ procs' = [procs EXCEPT ![p].pc = "opened"]
    /\ UNCHANGED <<registered_functions, uuid_next, issued, last_reg, call,
                   wrappers, wcall, xtext, xresult>>

\* what a writer of tools leaves when the file holds a document written
\* since the writer opened it: its own document when that is as long as
\* the older text, else its document followed by the rest of the older
\* text, which is no JSON document
overlay(file, tools) ==
    IF file.text = "json" /\ DocumentLen(file.content) > DocumentLen(tools)
    THEN Truncated
    ELSE Document(tools)

\* line 49 of save_tools: the document is written and the file closed
CDump(p) ==
    /\ procs[p].pc = "opened"
    /\ tools_file' = dump(tools_file, procs[p].tools,
                          overlay(tools_file, procs[p].tools)).file
    /\ procs' = [procs EXCEPT ![p].pc = "done",
                              ![p].stamp = 1 + Cardinality({q \in Callers :
                                                   procs[q].pc = "done"})]
    /\ UNCHANGED <<registered_functions, uuid_next, issued, last_reg, call,
                   wrappers, wcall, xtext, xresult>>

CNext == \E p \in Callers : CLoad(p) \/ COpen(p) \/ CDump(p)

CSpec == CInit /\ [][CNext]_vars

-----------------------------------------------------------------------------
(* Brace groups, stated by counting and not by scanning *)

\* the number of "{" minus the number of "}" among t[i..j]
Depth(t, i, j) ==
    Cardinality({k \in i..j : t[k] = "{"}) - Cardinality({k \in i..j : t[k] = "}"})

\* t[i..j] is a balanced group: it opens at i, closes at j, and the depth
\* counted from i is positive before j and zero at j
IsGroup(t, i, j) ==
    /\ i < j
    /\ t[i] = "{"
    /\ t[j] = "}"
    /\ Depth(t, i, j) = 0
    /\ \A k \in i..(j - 1) : Depth(t, i, k) > 0

Groups(t) == {p \in (1..Len(t)) \X (1..Len(t)) : IsGroup(t, p[1], p[2])}

\* the groups that lie inside no other group
TopGroups(t) ==
    {p \in Groups(t) :
        \A q \in Groups(t) : ~(q[1] < p[1] /\ p[2] < q[2])}

FirstTopGroup(t) ==
    CHOOSE p \in TopGroups(t) : \A q \in TopGroups(t) : p[1] <= q[1]

\* the first "{" of t opens a group
FirstBraceCloses(t) ==
    \E i, j \in 1..Len(t) :
        /\ IsGroup(t, i, j)
        /\ \A k \in 1..(i - 1) : t[k] # "{"

-----------------------------------------------------------------------------
(* Claims about extract_json, checked under XSpec *)

\* C5 as stated: for every text that contains a balanced {...} group,
\* extract_json returns the first top-level balanced group, as the same
\* substring of the text.
C5_AnyBalancedGroupIsReturned ==
    (xresult # Pending /\ Groups(xtext) # {}) =>
        LET p == FirstTopGroup(xtext)
        IN  xresult = Str(SubSeq(xtext, p[1], p[2]))

\* C5 amended: for every text whose first "{" is closed (the depth counted
\* from it comes back to zero), extract_json returns the substring from that
\* first "{" to the "}" that first brings the depth back to zero, which is
\* the first top-level balanced group; nested groups are included, text
\* before and after is dropped.
C5_FirstBraceGroupIsReturned ==
    (xresult # Pending /\ FirstBraceCloses(xtext)) =>
        \E i, j \in 1..Len(xtext) :
            /\ IsGroup(xtext, i, j)
            /\ \A k \in 1..(i - 1) : xtext[k] # "{"
            /\ <<i, j>> = FirstTopGroup(xtext)
            /\ xresult = Str(SubSeq(xtext, i, j))

\* noise, a group with a nested group, a tail: x{{}}x gives {{}}
C5_Witness ==
    /\ xtext = <<"x", "{", "{", "}", "}", "x">>
    /\ xresult = Str(<<"{", "{", "}", "}">>)

\* C6: extract_json returns None, and raises nothing, for every text with no
\* "{" and for every text in which the depth counted from the first "{"
\* never comes back to zero.
C6_NoObjectGivesNone ==
    (xresult # Pending /\ ~FirstBraceCloses(xtext)) => xresult = None

\* an unbalanced text that holds a closed inner group and a stray "}" before
\* the first "{": }{{} gives None
C6_Witness ==
    /\ xtext = <<"}", "{", "{", "}">>
    /\ xresult = None

-----------------------------------------------------------------------------
(* Reading a finished tool_calling run *)

\* the LLM's reply to the selection prompt of the run
Reply == call.out.llm[1].reply

\* the run loaded the registry and asked the LLM for a selection
Asked == call # NoCall /\ call.out.llm # <<>>

\* an object was extracted from the reply and the fallback was not due
ObjectExtracted ==
    /\ Asked
    /\ extract_json(Reply) # None
    /\ ~contains_None(extract_json(Reply).val)

\* the extracted object is a selection: it parses and has the three keys
IsSelection ==
    /\ ObjectExtracted
    /\ json_loads(extract_json(Reply).val).kind = "value"
    /\ {"tool_name", "arguments", "module_path"}
           \subseteq DOMAIN json_loads(extract_json(Reply).val).val.v

Selected == json_loads(extract_json(Reply).val).val.v

\* the selection names a string and binds keyword arguments
NamesTool ==
    /\ IsSelection
    /\ Selected["tool_name"].t = "str"
    /\ Selected["arguments"].t = "obj"

\* the in-process symbol table of static registration holds the selected name
InSymbolTable ==
    /\ NamesTool
    /\ Selected["tool_name"].v \in DOMAIN registered_functions

\* the selected module_path imports and has the selected attribute
ModuleHasTool ==
    /\ NamesTool
    /\ import_module(Selected["module_path"]).kind = "module"
    /\ Selected["tool_name"].v \in DOMAIN ModuleAttrs[Selected["module_path"].v]

-----------------------------------------------------------------------------
(* Claims about tool_calling, checked under Spec *)

\* C1 as stated: a selection that names a statically registered function is
\* dispatched by calling that function with the supplied keyword arguments,
\* without importing any module, whatever its module_path; the caller gets
\* what the function returns.
C1_StaticToolCalledDirectly ==
    (InSymbolTable
        /\ DOMAIN Selected["arguments"].v
              = ParamSet(registered_functions[Selected["tool_name"].v])) =>
        LET fn == registered_functions[Selected["tool_name"].v]
        IN  /\ call.out.imports = <<>>
            /\ call.out.invoked = <<fn>>
            /\ run_body(fn, Selected["arguments"].v).kind = "return"
                   => call.out.result = run_body(fn, Selected["arguments"].v)

\* C2 as stated: an error raised by the body of the invoked tool reaches the
\* caller of tool_calling as it is, whatever its class; it is never turned
\* into a None result.
C2_ToolErrorPropagates ==
    (call # NoCall /\ call.out.by = "tool"
        /\ Functions[call.out.invoked[1]].body \in ToolErrors) =>
        call.out.result = Raise(Functions[call.out.invoked[1]].body)

\* C3 as stated: when an object is extracted and the fallback is not taken,
\* tool_calling returns the tool's result, or None, or lets through an error
\* raised by the tool body; no parse or lookup failure is raised.
C3_OnlyToolErrorsRaised ==
    ObjectExtracted =>
        \/ call.out.result.kind = "return"
        \/ call.out.result.kind = "raise" /\ call.out.by = "tool"

C9_LookupFailureGivesNone ==
    (NamesTool /\ ~InSymbolTable /\ ~ModuleHasTool
        /\ Selected["tool_name"].v \notin DOMAIN tool_py_globals) =>
        /\ call.out.result = Return(JNone)
        /\ call.out.invoked = <<>>

\* C10 as stated: when the selected tool is not in the in-process symbol
\* table and the selected module_path imports and has the attribute,
\* tool_calling imports that module, calls that attribute with the supplied
\* keyword arguments and returns its result.
C10_ModuleToolCalled ==
    (NamesTool /\ ~InSymbolTable /\ ModuleHasTool) =>
        LET fn == ModuleAttrs[Selected["module_path"].v][Selected["tool_name"].v]
            bound == DOMAIN Selected["arguments"].v = ParamSet(fn)
        IN  /\ call.out.imports = <<Selected["module_path"]>>
            /\ bound => call.out.invoked = <<fn>>
            /\ (bound /\ run_body(fn, Selected["arguments"].v).kind = "return")
                   => call.out.result = run_body(fn, Selected["arguments"].v)

-----------------------------------------------------------------------------
(* Claims about registration, checked under Spec *)

\* the Registry as load_tools gives it
Registry == load_tools(tools_file).tools

\* a registration call has just ended without an error
Registered == last_reg # NoCall /\ last_reg.exc = ""

NoRepeat(q) == \A i, j \in 1..Len(q) : i # j => q[i] # q[j]

\* the last record a registration wrote under name
LastWritten(name) ==
    LET w == last_reg.written
        k == CHOOSE i \in 1..Len(w) :
                /\ w[i].name = name
                /\ \A j \in (i + 1)..Len(w) : w[j].name # name
    IN  w[k].record

WrittenNames == {last_reg.written[i].name : i \in 1..Len(last_reg.written)}

\* C8: a registration, static or of a module, leaves one record per name:
\* the keys are the old keys and the names registered; the record of a
\* registered name is the new record and nothing else (no field of the old
\* record is left); its tool_call_id differs from the one of the old record
\* and from every id minted before.
C8_ReRegistrationReplaces ==
    Registered =>
        /\ DOMAIN Registry = (DOMAIN last_reg.before.content) \cup WrittenNames
        /\ NoRepeat(issued)
        /\ \A name \in WrittenNames :
            /\ Registry[name] = LastWritten(name)
            /\ Registry[name]["tool_call_id"].t = "id"
            /\ \E k \in (Len(issued) - Len(last_reg.written) + 1)..Len(issued) :
                   Registry[name]["tool_call_id"].v = issued[k]
            /\ name \in DOMAIN last_reg.before.content =>
                 /\ Registry[name]["tool_call_id"]
                        # last_reg.before.content[name]["tool_call_id"]
                 /\ \A field \in DOMAIN last_reg.before.content[name] :
                        field \in DOMAIN Registry[name] =>
                            field \in DOMAIN LastWritten(name)

\* a module registration has just replaced the static record of add, whose
\* is_runtime field is gone
C8_Witness ==
    /\ Registered
    /\ last_reg.kind = "module"
    /\ "add" \in WrittenNames
    /\ "add" \in DOMAIN last_reg.before.content
    /\ "is_runtime" \in DOMAIN last_reg.before.content["add"]
    /\ "is_runtime" \notin DOMAIN Registry["add"]
    /\ Registry["add"]["module_path"] = JStr("m1")

-----------------------------------------------------------------------------
(* Claims about module registration, checked under Spec *)

\* the entries of the list the LLM wrote for the module registration that
\* has just ended
Entries == literal_eval(last_reg.text).val.v

\* C11: after a successful register_function(m), every record written for
\* an entry of the LLM's list is that entry with module_path set to m,
\* whatever module_path the entry carried, and with a tool_call_id minted
\* during this call, different from every other id; the records in the
\* Registry carry m too; the Registry was loaded once and saved once, after
\* the LLM was asked.
C11_ModulePathForced ==
    (Registered /\ last_reg.kind = "module"
        /\ literal_eval(last_reg.text).val.t = "list") =>
        LET w == last_reg.written
            minted == SubSeq(issued, Len(issued) - Len(w) + 1, Len(issued))
        IN  /\ last_reg.io = <<"llm", "load", "save">>
            /\ Len(w) = Len(Entries)
            /\ NoRepeat(issued)
            /\ \A i \in 1..Len(w) :
                /\ w[i].record["module_path"] = JStr(last_reg.module_path)
                /\ w[i].record["tool_call_id"] = ToolCallId(minted[i])
                /\ \A field \in DOMAIN Entries[i].v :
                       field \notin {"module_path", "tool_call_id"} =>
                           w[i].record[field] = Entries[i].v[field]
                /\ Registry[w[i].name]["module_path"] = JStr(last_reg.module_path)

\* the LLM wrote module_path "stale" for add; the record written has "m1"
C11_Witness ==
    /\ Registered
    /\ last_reg.kind = "module"
    /\ last_reg.module_path = "m1"
    /\ Len(last_reg.written) = 1
    /\ last_reg.written[1].name = "add"
    /\ "module_path" \in DOMAIN Entries[1].v
    /\ Entries[1].v["module_path"] = JStr("stale")
    /\ Registry["add"]["module_path"] = JStr("m1")
    /\ Registry["add"]["tool_call_id"].t = "id"

\* parsing the text gave a list whose elements are all dicts
IsListOfMappings(parsed) ==
    /\ parsed.kind = "value"
    /\ parsed.val.t = "list"
    /\ \A i \in 1..Len(parsed.val.v) : parsed.val.v[i].t = "obj"

\* C12 as stated: a module registration raises to its caller whenever the
\* LLM's text does not parse to a list of dicts (no literal; a dict, a
\* string, a number, None, empty or not; a list with an element that is no
\* dict); it never ends without an error on such a text.
C12_NonListOutputRaises ==
    (last_reg # NoCall /\ last_reg.kind = "module"
        /\ ~IsListOfMappings(literal_eval(last_reg.text))) =>
        last_reg.exc # ""

-----------------------------------------------------------------------------
(* Claims about the wrapper of static registration, checked under Spec *)

\* C13: a call of the wrapper that @function_tool returned for f returns
\* what f returns and raises what f raises for the same positional and
\* keyword arguments; the Registry file, the registered functions and the
\* ids minted are after the call what they were before it: nothing is
\* registered by a call, f was registered when it was declared.
C13_WrapperTransparent ==
    wcall # NoCall =>
        /\ wcall.out = call_function(wcall.fn, wcall.args, wcall.kwargs)
        /\ tools_file = wcall.before
        /\ registered_functions = wcall.held
        /\ issued = wcall.issued
        /\ Functions[wcall.fn].name \in DOMAIN registered_functions
        /\ wcall.fn \in wrappers

\* the wrapper of add(x, y) called as add(2, "a") raises the TypeError of
\* the addition, and the record of add is still the one of the declaration
C13_Witness ==
    /\ wcall # NoCall
    /\ wcall.fn = "add_xy"
    /\ wcall.args = <<JNum(2), JStr("a")>>
    /\ wcall.kwargs = EmptyDict
    /\ wcall.out = Raise("TypeError")
    /\ tools_file.text = "json"
    /\ "add" \in DOMAIN tools_file.content
    /\ tools_file.content["add"]["is_runtime"] = JBool(TRUE)

-----------------------------------------------------------------------------
(* Claims about concurrent registrations, checked under CSpec *)

\* both callers have returned or raised
AllEnded == procs # <<>> /\ Ended = Callers

\* the callers that saved, and the one that saved last
Writers == {q \in Callers : procs[q].pc = "done"}

LastWriter == CHOOSE q \in Writers : \A r \in Writers : procs[r].stamp <= procs[q].stamp

\* one caller had ended when the other began
NotOverlapping == \E q \in Callers : procs[q].after # {}

\* C14 as stated: when two registration calls have interleaved their load
\* and save steps and both have ended, the file holds the document of the
\* caller that saved last (so the record of the other caller may be
\* missing); when one call began after the other had ended, the Registry
\* has both names.
C14_LastWriterWins ==
    (AllEnded /\ Writers # {}) =>
        /\ tools_file = Document(procs[LastWriter].tools)
        /\ NotOverlapping =>
               \A q \in Callers : Functions[procs[q].fn].name \in DOMAIN Registry

-----------------------------------------------------------------------------
(* Claims about the records of the Registry, checked under Spec *)

\* C15 as stated: in every state, every record of the Registry that has an
\* is_runtime field has it true exactly when its module_path is
\* "__runtime__", whatever the LLM wrote in the module registrations.
C15_IsRuntimeIffRuntimePath ==
    \A name \in DOMAIN Registry :
        "is_runtime" \in DOMAIN Registry[name] =>
            (Registry[name]["is_runtime"] = JBool(TRUE)
                <=> Registry[name]["module_path"] = JStr("__runtime__"))

\* the names of the (name, record) pairs in written
NamesOf(written) == {written[i].name : i \in 1..Len(written)}

\* a registration that found the file `before` and wrote `written` left
\* every record of another name as it was, and a record for every name
\* that had one or was written; a file that was no JSON document before
\* the call holds no record to keep
FrameKept(before, written) ==
    IF before.text # "json" THEN tools_file.text # "json"
    ELSE /\ \A name \in NamesOf(written) :
                tools_file.text = "json" /\ name \in DOMAIN Registry
         /\ \A name \in DOMAIN before.content :
                /\ tools_file.text = "json"
                /\ name \in DOMAIN Registry
                /\ name \notin NamesOf(written) =>
                       Registry[name] = before.content[name]

\* tool_calling has just ended and register_function was called by it
RegisteredByCall == call # NoCall /\ call.out.reg # NoReg

\* C16 as stated: a registration run on its own (static, or of a module
\* batch, also one made by register_function called from tool_calling)
\* leaves the record of every name it does not register unchanged, and the
\* keys of the Registry after it are the keys before it and the names it
\* registered: no key is lost, every registered name is a key.
C16_OtherRecordsKept ==
    /\ last_reg # NoCall => FrameKept(last_reg.before, last_reg.written)
    /\ RegisteredByCall => FrameKept(call.before, call.out.reg.written)

-----------------------------------------------------------------------------
(* Claims about what tool_calling leaves behind, checked under Spec *)

\* C17 as stated: whatever way a run of tool_calling ends (a tool result,
\* the fallback answer, None, an error), the registered functions are the
\* ones before the run and the file is the one before the run, but that a
\* file that did not exist now exists and holds the empty document.
C17_ToolCallingOnlyReads ==
    call # NoCall =>
        /\ registered_functions = call.held
        /\ tools_file = get_tools_path(call.before)
        /\ tools_file.exists

-----------------------------------------------------------------------------
(* Claims about failing registrations, checked under Spec *)

\* a registration call has just ended with an error
Failed == last_reg # NoCall /\ last_reg.exc # ""

\* C18 as stated: a module registration that raises (the module does not
\* load, the LLM text does not parse, an entry is no dict or has no
\* tool_name, the Registry does not load, or any later step fails) leaves
\* the file as it was before the call, but that a file that did not exist
\* may now exist and hold the empty document: no record is written.
C18_FailedModuleWritesNothing ==
    (Failed /\ last_reg.kind = "module") =>
        \/ tools_file = last_reg.before
        \/ tools_file = get_tools_path(last_reg.before)

\* C19 as stated: in every state every name in the registered functions is
\* a key of the Registry the file holds, and a static registration that
\* raises has changed neither the registered functions nor the records.
C19_SymbolTableWithinRegistry ==
    /\ \A name \in DOMAIN registered_functions :
           tools_file.text = "json" /\ name \in DOMAIN tools_file.content
    /\ (Failed /\ last_reg.kind = "static") =>
           /\ registered_functions = last_reg.held
           /\ tools_file = get_tools_path(last_reg.before)

=============================================================================
